---- MODULE Spec2Model ----
(***************************************************************************)
(* Model of the Gantt chart client: the hierarchy build of useTasks        *)
(* (src/src/hooks/useTasks.ts) over the tasks / task_dependencies tables,  *)
(* and the timeline geometry and drag gestures of TaskBar                  *)
(* (src/src/components/GanttChart/TaskBar.tsx).                            *)
(*                                                                         *)
(* Identifiers are small naturals, NULL is 0.  Calendar dates             *)
(* ('yyyy-MM-dd' strings) are day numbers; Date objects are instants in    *)
(* hours since day 0, 00:00 UTC.                                           *)
(***************************************************************************)
EXTENDS Integers, Sequences, FiniteSets, TLC

\* ------------------------------------------------------------------ bounds
MaxTasks == 3       \* tasks of the fetched project
MaxDeps  == 2       \* rows of task_dependencies

\* input domains
OrderIndexes == {0, 1}      \* order_index values: equal and distinct ones
Predecessors == {1, 2}      \* tasks that dependency edges start from

\* pointer positions: how far, in days, a drag goes left and right of the grab
MaxLeftDays  == 8
MaxRightDays == 3
MaxDuration  == 3   \* days a task lasts
MaxMoves == 2           \* accepted mouse-moves followed in one gesture
MaxListeners == 1   \* handleMouseDown calls before the next mouse-up

NULL == 0
DefaultDayWidth == 40
BufferDays == 7
BarInsetLeft == 4
BarInsetWidth == 8
HoursPerDay == 24
ProjectId == 1                  \* the projectId handed to useTasks
OtherProject == 2               \* a second project of the same database
UserId == 1                     \* the signed-in user
ForeignTask == MaxTasks + 1     \* a task row that belongs to OtherProject
Successors == {2, 3, ForeignTask}   \* tasks that dependency edges end at

VARIABLES
    dbTasks,        \* table tasks: set of rows
    dbDeps,         \* table task_dependencies: sequence of rows
    tasksData,      \* fetchTasks: rows returned by the tasks query
    depsData,       \* fetchTasks: rows returned by the dependency query
    tasksMap,       \* the built nodes, id -> [subtasks, dependencies]
    tasks,          \* useState tasks: the root list (ids of tasksMap)
    loading,        \* useState loading
    toast,          \* last notification shown by useTasks
    fetched,        \* "pending", or how the queries of fetchTasks ended
    tz,             \* the browser's time zone: [before, after, at]
    project,        \* Index: currentProject (start_date, end_date)
    barTask,        \* TaskBar: the task prop (start_date, end_date)
    dayWidth,       \* GanttChart: useState dayWidth
    onUpdate,       \* TaskBar: the onUpdate prop is present
    isDragging,     \* TaskBar: useState isDragging
    isResizing,     \* TaskBar: useState isResizing ("none" for null)
    listeners,      \* document listeners: one closure per handleMouseDown
    event,          \* the last mouse event handled
    emitted,        \* onUpdate calls made by the last event, per listener
    acceptedMoves,  \* handleMouseMove runs since the last mouse-down on an
                    \* idle bar that passed their acceptance condition
    updateTaskCalls, \* Index: updateTask calls made by handleTaskUpdate since
                    \* the last mouse-down on an idle bar
    chartStart,     \* GanttChart: the startDate prop
    chartEnd,       \* GanttChart: the endDate prop
    months,         \* TimelineHeader: the month groups of the last rendering
    projectId,      \* useTasks: the projectId argument (NULL for undefined)
    channels,       \* realtime channels subscribed: the project each filters
    calls,          \* useTasks calls awaiting a storage answer, oldest first
    done,           \* the useTasks call that resolved last
    started,        \* how many useTasks calls were made since mounting
    user,           \* useAuth: the signed-in user (NULL for none)
    dbProfile,      \* table profiles: the user has a row
    dbProjects,     \* table projects: ids of the rows the profile owns
    projects,       \* useProjects: useState projects (ids, as listed)
    currentProject, \* useProjects: useState currentProject (NULL for null)
    projectsLoading,    \* useProjects: useState loading
    projectsToast,      \* last notification shown by useProjects
    projectCalls,   \* useProjects calls awaiting an answer, oldest first
    projectDone,    \* the useProjects call that resolved last
    projectsStarted,    \* how many useProjects calls were made since mounting
    walkState,      \* a traversal of the forest: "idle", "walking" or "done"
    stack,          \* the tasks the traversal has still to visit, next first
    walked          \* the tasks the traversal visited, in order

hierVars == <<dbTasks, dbDeps, tasksData, depsData, tasksMap, tasks, loading,
              toast, fetched>>

dragVars == <<tz, project, barTask, dayWidth, onUpdate, isDragging, isResizing,
              listeners, event, emitted, acceptedMoves, updateTaskCalls>>

headerVars == <<chartStart, chartEnd, months>>

taskOpVars == <<projectId, channels, calls, done, started>>

projectVars == <<user, dbProfile, dbProjects, projects, currentProject,
                 projectsLoading, projectsToast, projectCalls, projectDone,
                 projectsStarted>>

walkVars == <<walkState, stack, walked>>

vars == <<hierVars, dragVars, headerVars, taskOpVars, projectVars, walkVars>>

\* what the operations of one part leave alone
besideHier == <<dragVars, headerVars, taskOpVars, projectVars, walkVars>>
besideDrag == <<hierVars, headerVars, taskOpVars, projectVars, walkVars>>
besideHeader == <<hierVars, dragVars, taskOpVars, projectVars, walkVars>>
besideTasks == <<dragVars, headerVars, projectVars, walkVars>>
besideProjects == <<hierVars, dragVars, headerVars, taskOpVars, walkVars>>
besideWalk == <<hierVars, dragVars, headerVars, taskOpVars, projectVars>>

\* ------------------------------------------------------- storage contents
TaskRow(i, proj, par, ord) ==
    [id |-> i, project_id |-> proj, parent_id |-> par, order_index |-> ord]

DepRow(i, p, s) == [id |-> i, predecessor_id |-> p, successor_id |-> s]

\* every table content with n tasks in ProjectId and one task in OtherProject.
\* createTask stores the id of a task that already exists as parent_id and no
\* update changes parent_id, so a parent is an older row; a parent in the
\* other project is the cross-project reference the tables do not forbid.
TaskTables ==
    UNION { { { TaskRow(i, ProjectId, par[i], ord[i]) : i \in 1..n }
                \cup { TaskRow(ForeignTask, OtherProject, NULL, 0) }
              : par \in { f \in [1..n -> 0..ForeignTask] :
                            \A i \in 1..n : f[i] < i \/ f[i] = ForeignTask },
                ord \in [1..n -> OrderIndexes] }
            : n \in 0..MaxTasks }

RowIds(rows) == { r.id : r \in rows }

\* edges run from a predecessor to a task created after it, in the project
\* or outside it
DepPairs(ids) ==
    { pr \in (Predecessors \cap ids) \X (Successors \cap ids) : pr[1] < pr[2] }

PairKey(pr) == pr[1] * (ForeignTask + 1) + pr[2]

\* UNIQUE(predecessor_id, successor_id): no pair twice; the rows are listed
\* in the order of their pairs
DepTables(ids) ==
    UNION { { [k \in 1..n |-> DepRow(k, f[k][1], f[k][2])]
              : f \in { g \in [1..n -> DepPairs(ids)] :
                          \A a \in 1..n : a < n => PairKey(g[a]) < PairKey(g[a + 1]) } }
            : n \in 0..MaxDeps }

\* ---------------------------------------------------------------- queries
SeqRange(s) == { s[k] : k \in 1..Len(s) }

\* .from('tasks').select('*').eq('project_id', p).order('order_index'):
\* every listing of the project's rows in ascending order_index (rows with
\* equal order_index come in an order the database chooses)
TaskQueryResults(rows, p) ==
    LET sel == { r \in rows : r.project_id = p }
        n   == Cardinality(sel)
    IN  { s \in [1..n -> sel] :
            /\ \A a, b \in 1..n : a # b => s[a] # s[b]
            /\ \A a \in 1..n : a < n => s[a].order_index <= s[a + 1].order_index }

\* .from('task_dependencies').select('*').in('successor_id', ids)
DepQueryResult(deps, data) ==
    SelectSeq(deps, LAMBDA d : d.successor_id \in RowIds(SeqRange(data)))

\* ------------------------------------------------------- hierarchy build
\* depsData.filter(d => d.successor_id === task.id)
TaskDepsWrongKey(deps, id) == SelectSeq(deps, LAMBDA d : d.predecessor_id = id)

TaskDeps(deps, id) == SelectSeq(deps, LAMBDA d : d.successor_id = id)

\* first pass: one node per fetched task, subtasks empty
FirstPass(data, deps) ==
    [i \in RowIds(SeqRange(data)) |->
        [subtasks |-> <<>>, dependencies |-> TaskDeps(deps, i)]]

\* second pass, one task: acc = [map, roots, threw]
PlaceUnguarded(acc, task) ==
    IF task.parent_id # NULL
    THEN IF task.parent_id \in DOMAIN acc.map
         THEN [acc EXCEPT !.map[task.parent_id].subtasks = Append(@, task.id)]
         ELSE [acc EXCEPT !.threw = TRUE]
    ELSE [acc EXCEPT !.roots = Append(@, task.id)]

PlaceUnshift(acc, task) ==
    IF task.parent_id # NULL
    THEN IF task.parent_id \in DOMAIN acc.map
         THEN [acc EXCEPT !.map[task.parent_id].subtasks = <<task.id>> \o @]
         ELSE acc
    ELSE [acc EXCEPT !.roots = <<task.id>> \o @]

PlaceAlsoRoot(acc, task) ==
    IF task.parent_id # NULL /\ task.parent_id \in DOMAIN acc.map
    THEN [acc EXCEPT !.map[task.parent_id].subtasks = Append(@, task.id),
                     !.roots = Append(@, task.id)]
    ELSE IF task.parent_id = NULL
         THEN [acc EXCEPT !.roots = Append(@, task.id)]
         ELSE acc

PlaceShallow(acc, task) ==
    IF task.parent_id # NULL
    THEN IF task.parent_id \in SeqRange(acc.roots)
         THEN [acc EXCEPT !.map[task.parent_id].subtasks = Append(@, task.id)]
         ELSE acc
    ELSE [acc EXCEPT !.roots = Append(@, task.id)]

PlaceOwnParentAsRoot(acc, task) ==
    IF task.parent_id # NULL
    THEN IF task.parent_id \in DOMAIN acc.map
         THEN [acc EXCEPT !.map[task.parent_id].subtasks = Append(@, task.id),
                          !.roots = IF task.parent_id = task.id
                                    THEN Append(@, task.id) ELSE @]
         ELSE acc
    ELSE [acc EXCEPT !.roots = Append(@, task.id)]

PlaceTask(acc, task) ==
    IF task.parent_id # NULL
    THEN IF task.parent_id \in DOMAIN acc.map
         THEN [acc EXCEPT !.map[task.parent_id].subtasks = Append(@, task.id)]
         ELSE acc
    ELSE [acc EXCEPT !.roots = Append(@, task.id)]

RECURSIVE SecondPass(_, _, _)
SecondPass(data, i, acc) ==
    IF i > Len(data) \/ acc.threw
    THEN acc
    ELSE SecondPass(data, i + 1, PlaceTask(acc, data[i]))

BuildHierarchy(data, deps) ==
    SecondPass(data, 1,
               [map |-> FirstPass(data, deps), roots |-> <<>>, threw |-> FALSE])

\* ------------------------------------------------------------ operations
NoToast == "none"
LoadFailed == "Failed to load tasks"

\* the chart as it is before any project or task is shown
BarIdle ==
    /\ project = [start_date |-> 0, end_date |-> 0]
    /\ barTask = [start_date |-> 0, end_date |-> 0]
    /\ dayWidth = DefaultDayWidth
    /\ onUpdate = TRUE
    /\ isDragging = FALSE
    /\ isResizing = "none"
    /\ listeners = <<>>
    /\ event = [kind |-> "none", clientX |-> 0]
    /\ emitted = <<>>
    /\ acceptedMoves = 0
    /\ updateTaskCalls = 0

DragIdle ==
    /\ tz = [before |-> 0, after |-> 0, at |-> 0]
    /\ BarIdle

\* no chart rendered yet
HeaderIdle ==
    /\ chartStart = 0
    /\ chartEnd = 0
    /\ months = <<>>

\* useTasks of one project, no call awaiting an answer
NoCall == [op |-> "none", result |-> "none", fetch |-> "none", late |-> FALSE]

TaskOpsIdle ==
    /\ projectId = ProjectId
    /\ channels = <<>>
    /\ calls = <<>>
    /\ done = NoCall
    /\ started = 0

\* useProjects with the one project of ProjectId loaded and current
NoProjectCall == [op |-> "none", result |-> "none"]

ProjectsIdle ==
    /\ user = UserId
    /\ dbProfile = TRUE
    /\ dbProjects = {ProjectId}
    /\ projects = <<ProjectId>>
    /\ currentProject = ProjectId
    /\ projectsLoading = FALSE
    /\ projectsToast = NoToast
    /\ projectCalls = <<>>
    /\ projectDone = NoProjectCall
    /\ projectsStarted = 0

\* no traversal of the forest under way
WalkIdle ==
    /\ walkState = "idle"
    /\ stack = <<>>
    /\ walked = <<>>

HierInit ==
    /\ DragIdle
    /\ HeaderIdle
    /\ TaskOpsIdle
    /\ ProjectsIdle
    /\ WalkIdle
    /\ dbTasks \in TaskTables
    /\ dbDeps \in DepTables(RowIds(dbTasks))
    /\ tasksData = <<>>
    /\ depsData = <<>>
    /\ tasksMap = << >>
    /\ tasks = <<>>
    /\ loading = TRUE
    /\ toast = NoToast
    /\ fetched = "pending"

\* fetchTasks with both queries answered
FetchTasks ==
    /\ fetched = "pending"
    /\ \E data \in TaskQueryResults(dbTasks, ProjectId) :
         LET deps == DepQueryResult(dbDeps, data)
             built == BuildHierarchy(data, deps)
         IN  /\ tasksData' = data
             /\ depsData' = deps
             /\ IF built.threw
                THEN /\ toast' = LoadFailed
                     /\ UNCHANGED <<tasks, tasksMap>>
                ELSE /\ tasks' = built.roots
                     /\ tasksMap' = built.map
                     /\ UNCHANGED toast
    /\ loading' = FALSE
    /\ fetched' = "answered"
    /\ UNCHANGED <<dbTasks, dbDeps>>
    /\ UNCHANGED besideHier

\* fetchTasks with a query answered by an error object
FetchTasksError ==
    /\ fetched = "pending"
    /\ toast' = LoadFailed
    /\ loading' = FALSE
    /\ fetched' = "error"
    /\ UNCHANGED <<dbTasks, dbDeps, tasksData, depsData, tasksMap, tasks>>
    /\ UNCHANGED besideHier

HierNext == FetchTasks \/ FetchTasksError

SpecHierarchy == HierInit /\ [][HierNext]_vars

\* ------------------------------------------- the forest seen from the roots
Ids(data) == RowIds(SeqRange(data))

Row(data, i) == CHOOSE r \in SeqRange(data) : r.id = i

Pos(data, i) == CHOOSE k \in 1..Len(data) : data[k].id = i

Count(s, x) == Cardinality({ k \in 1..Len(s) : s[k] = x })

\* pre-order listing of the nodes reachable from the list ids, to depth fuel
RECURSIVE Flatten(_, _, _)
Flatten(map, ids, fuel) ==
    IF ids = <<>> \/ fuel = 0
    THEN <<>>
    ELSE <<Head(ids)>> \o Flatten(map, map[Head(ids)].subtasks, fuel - 1)
                       \o Flatten(map, Tail(ids), fuel)

Forest == Flatten(tasksMap, tasks, MaxTasks + 1)

\* the ids found at depth d below the root list (with repetitions)
RECURSIVE Level(_, _, _)
Level(map, ids, d) ==
    IF ids = <<>>
    THEN <<>>
    ELSE (IF d = 0 THEN <<Head(ids)>>
                   ELSE Level(map, map[Head(ids)].subtasks, d - 1))
         \o Level(map, Tail(ids), d)

\* number of parent_id hops from task i to a row with parent_id NULL;
\* -1 when the chain leaves the fetched rows or does not end
RECURSIVE ChainLen(_, _, _)
ChainLen(data, i, fuel) ==
    IF i \notin Ids(data) \/ fuel = 0
    THEN -1
    ELSE IF Row(data, i).parent_id = NULL
         THEN 0
         ELSE LET up == ChainLen(data, Row(data, i).parent_id, fuel - 1)
              IN  IF up < 0 THEN -1 ELSE up + 1

Chain(i) == ChainLen(tasksData, i, Len(tasksData))

ValidParents(data) ==
    \A r \in SeqRange(data) : r.parent_id = NULL \/ r.parent_id \in Ids(data)

NoCycle(data) ==
    \A r \in SeqRange(data) : ChainLen(data, r.id, Len(data)) >= 0

Built == fetched = "answered" /\ toast = NoToast

\* C1: when the fetched list has no parent cycle and every non-null
\* parent_id names a fetched task, every fetched task occurs exactly once in
\* the forest reachable from the roots, and the forest has as many nodes as
\* the list has tasks.
C1_EachTaskOnce ==
    (fetched = "answered" /\ ValidParents(tasksData) /\ NoCycle(tasksData)) =>
        LET forest == Forest
        IN  /\ Built
            /\ Len(forest) = Len(tasksData)
            /\ \A i \in Ids(tasksData) : Count(forest, i) = 1

C1_Witness ==
    /\ Built /\ ValidParents(tasksData) /\ NoCycle(tasksData)
    /\ Len(tasksData) = MaxTasks
    /\ Len(tasks) = 1
    /\ \E i \in Ids(tasksData) : Len(tasksMap[i].subtasks) = 2

\* C2: the root list and every node's subtasks list keep the relative order
\* of the fetched list, which is ascending in order_index.
InFetchOrder(ids) ==
    \A a, b \in 1..Len(ids) : a < b =>
        /\ Pos(tasksData, ids[a]) < Pos(tasksData, ids[b])
        /\ Row(tasksData, ids[a]).order_index <= Row(tasksData, ids[b]).order_index

C2_SiblingOrder ==
    fetched = "answered" =>
        /\ Built
        /\ InFetchOrder(tasks)
        /\ \A i \in Ids(tasksData) : InFetchOrder(tasksMap[i].subtasks)

C2_Witness ==
    /\ Built
    /\ \E i \in Ids(tasksData) :
         LET sub == tasksMap[i].subtasks
         IN  /\ Len(sub) = 2
             /\ sub[1] > sub[2]
             /\ Row(tasksData, sub[1]).order_index < Row(tasksData, sub[2]).order_index

\* C3: a built task's dependencies are exactly the fetched edges whose
\* successor_id is the task's id, each once; an edge of the table whose
\* successor is not a fetched task is in no task's dependencies, and the
\* fetch shows no error.
C3_Dependencies ==
    fetched = "answered" =>
        /\ Built
        /\ \A i \in Ids(tasksData) :
             \A d \in SeqRange(dbDeps) :
                Count(tasksMap[i].dependencies, d) =
                    IF d \in SeqRange(depsData) /\ d.successor_id = i THEN 1 ELSE 0
        /\ \A i \in Ids(tasksData) :
             SeqRange(tasksMap[i].dependencies) \subseteq SeqRange(depsData)
        /\ \A d \in SeqRange(dbDeps) : d.successor_id \notin Ids(tasksData) =>
             \A i \in Ids(tasksData) : d \notin SeqRange(tasksMap[i].dependencies)

C3_Witness ==
    /\ Built
    /\ \E d \in SeqRange(dbDeps) : d.successor_id \notin Ids(tasksData)
    /\ \E i \in Ids(tasksData) : Len(tasksMap[i].dependencies) = 1

\* C4: a task whose non-null parent_id names no fetched task is not a root
\* and not a subtask of any node; it and the tasks below it are absent from
\* the forest; the fetch shows no error and every task whose parent chain
\* ends at a root is in the forest once.
Dangling(r) == r.parent_id # NULL /\ r.parent_id \notin Ids(tasksData)

\* task i hangs, through parent_id, below a task with a dangling parent
RECURSIVE BelowDangling(_, _)
BelowDangling(i, fuel) ==
    /\ fuel > 0
    /\ i \in Ids(tasksData)
    /\ \/ Dangling(Row(tasksData, i))
       \/ /\ Row(tasksData, i).parent_id # NULL
          /\ BelowDangling(Row(tasksData, i).parent_id, fuel - 1)

C4_DanglingParent ==
    fetched = "answered" =>
        LET forest == Forest
        IN  /\ Built
            /\ \A r \in SeqRange(tasksData) : Dangling(r) =>
                 /\ Count(tasks, r.id) = 0
                 /\ \A i \in Ids(tasksData) : Count(tasksMap[i].subtasks, r.id) = 0
            /\ \A i \in Ids(tasksData) :
                 BelowDangling(i, Len(tasksData)) => Count(forest, i) = 0
            /\ \A i \in Ids(tasksData) : Chain(i) >= 0 => Count(forest, i) = 1

C4_Witness ==
    /\ Built
    /\ \E r, c, o \in SeqRange(tasksData) :
         /\ Dangling(r)
         /\ c.parent_id = r.id
         /\ o.parent_id = NULL
         /\ Count(Forest, o.id) = 1
         /\ Count(Forest, c.id) = 0

\* C5: a task whose parent chain has d hops and ends at a task with NULL
\* parent_id is found at depth d of the forest, at no other depth, and is a
\* subtask of the node built for its parent_id.
C5_Depth ==
    fetched = "answered" =>
        /\ Built
        /\ \A d \in 0..Len(tasksData) :
             LET level == Level(tasksMap, tasks, d)
             IN  \A i \in Ids(tasksData) : Chain(i) >= 0 =>
                    Count(level, i) = IF d = Chain(i) THEN 1 ELSE 0
        /\ \A i \in Ids(tasksData) : Chain(i) > 0 =>
             Count(tasksMap[Row(tasksData, i).parent_id].subtasks, i) = 1

C5_Witness ==
    /\ Built
    /\ \E i \in Ids(tasksData) :
         /\ Chain(i) = MaxTasks - 1
         /\ Count(Level(tasksMap, tasks, MaxTasks - 1), i) = 1

\* ============================================= parent cycles, traversal
\* every table content with n tasks in ProjectId of which some are on a
\* parent cycle: parent_id is a foreign key into tasks with no further check,
\* and updateTask passes any parent_id on to storage
CyclicTables ==
    UNION { { { TaskRow(i, ProjectId, par[i], i - 1) : i \in 1..n }
              : par \in { f \in [1..n -> {NULL} \cup 1..n] :
                            ~NoCycle([i \in 1..n |-> TaskRow(i, ProjectId, f[i], i - 1)]) } }
            : n \in 1..MaxTasks }

CycleInit ==
    /\ DragIdle
    /\ HeaderIdle
    /\ TaskOpsIdle
    /\ ProjectsIdle
    /\ WalkIdle
    /\ dbTasks \in CyclicTables
    /\ dbDeps = <<>>
    /\ tasksData = <<>>
    /\ depsData = <<>>
    /\ tasksMap = << >>
    /\ tasks = <<>>
    /\ loading = TRUE
    /\ toast = NoToast
    /\ fetched = "pending"

\* a traversal of the forest starts at the root list: renderTaskRow for each
\* root, collectIds(tasks), findEarliestDate(tasks), findLatestDate(tasks)
StartWalk ==
    /\ fetched = "answered"
    /\ walkState = "idle"
    /\ walkState' = "walking"
    /\ stack' = tasks
    /\ walked' = <<>>
    /\ UNCHANGED besideWalk

\* the traversal handles one task and goes on with its subtasks, then with
\* the tasks after it; a traversal is followed for one visit more than there
\* are fetched tasks
Visit ==
    /\ walkState = "walking"
    /\ stack # <<>>
    /\ Len(walked) <= Len(tasksData)
    /\ walked' = Append(walked, Head(stack))
    /\ stack' = tasksMap[Head(stack)].subtasks \o Tail(stack)
    /\ UNCHANGED walkState
    /\ UNCHANGED besideWalk

\* nothing is left to visit: the traversal returns
EndWalk ==
    /\ walkState = "walking"
    /\ stack = <<>>
    /\ walkState' = "done"
    /\ UNCHANGED <<stack, walked>>
    /\ UNCHANGED besideWalk

CycleNext == FetchTasks \/ FetchTasksError \/ StartWalk \/ Visit \/ EndWalk

\* every call that can go on does go on
SpecCycle == CycleInit /\ [][CycleNext]_vars /\ WF_vars(CycleNext)

\* ------------------------------------------------- the claim about cycles
\* the fetched tasks whose parent chain does not end at a root
OffTheRoots == { i \in Ids(tasksData) : Chain(i) < 0 }

CycleFetched == fetched = "answered" /\ ~NoCycle(tasksData)

\* nothing tells of the cycle: no error, no notification, loading over
Unreported == toast = NoToast /\ ~loading /\ tasksMap # << >>

\* C21 as stated: for a fetched task set with a parent cycle, the cycle is
\* not reported, the forest is incomplete and the traversal of the forest
\* from its roots does not terminate.
C21_Original ==
    CycleFetched =>
        /\ Unreported
        /\ OffTheRoots # {}
        /\ walkState # "done"

\* C21 (amended): for a fetched task set with a parent cycle, the cycle is
\* not reported and the forest is incomplete: the tasks of the cycle and the
\* tasks below them hang on no root.  A traversal from the roots visits no
\* task twice and terminates, having visited exactly the other tasks.
C21_CycleDropped ==
    /\ [](CycleFetched =>
            /\ Unreported
            /\ OffTheRoots # {}
            /\ \A a, b \in 1..Len(walked) : a # b => walked[a] # walked[b]
            /\ SeqRange(walked) \cap OffTheRoots = {}
            /\ walkState = "done" =>
                 SeqRange(walked) = Ids(tasksData) \ OffTheRoots)
    /\ (walkState = "walking") ~> (walkState = "done")

\* a traversal has ended that visited a task while two other tasks, each the
\* parent of the other or of itself, were left out
C21_Witness ==
    /\ CycleFetched
    /\ walkState = "done"
    /\ walked # <<>>
    /\ OffTheRoots # {}
    /\ \A i \in OffTheRoots : tasksMap[i].subtasks # <<>>

\* =================================================== timeline and gestures
\* input domains: day 1 is 2024-01-01
\* the browser's time zone: UTC offset in hours before and after one
\* transition instant (hours since day 0, UTC); a zone without daylight
\* saving has the same offset on both sides
TransitionAt == 8 * HoursPerDay + 1
Zones ==
    { [before |-> -5, after |-> -5, at |-> TransitionAt],
      [before |-> 0, after |-> 0, at |-> TransitionAt],
      [before |-> 2, after |-> 1, at |-> TransitionAt] }
DayWidths == {40, 100}              \* the default and the widest zoom level
ProjectStartDays == {8}
TaskStartDays == {7, 10}
StartXs == {7}                      \* clientX of a mouse-down

\* ------------------------------------------------------- dates (date-fns)
\* new Date('yyyy-MM-dd'): a date-only string is midnight UTC of that day
ParseDate(day) == day * HoursPerDay

\* the local wall-clock time (hours since day 0) of a Date
Wall(t) == t + (IF t < tz.at THEN tz.before ELSE tz.after)

\* the Date a local wall-clock time denotes: the earlier instant when the
\* wall time occurs twice, the offset before the transition when it is skipped
FromWall(w) ==
    IF w - tz.before < tz.at THEN w - tz.before
    ELSE IF w - tz.after >= tz.at THEN w - tz.after
    ELSE w - tz.before

\* the calendar day a Date falls on in the browser's time zone
LocalDay(t) == Wall(t) \div HoursPerDay

\* format(date, 'yyyy-MM-dd'): the local calendar day
FormatDate(t) == LocalDay(t)

\* addDays(date, n): setDate(getDate() + n), the same local time n days on
addDays(t, n) == FromWall(Wall(t) + n * HoursPerDay)

Sgn(x) == IF x > 0 THEN 1 ELSE IF x < 0 THEN -1 ELSE 0

Abs(x) == IF x < 0 THEN -x ELSE x

\* compareLocalAsc(a, b): order of the two local wall-clock times
compareLocalAsc(a, b) == Sgn(Wall(a) - Wall(b))

differenceInCalendarDays(a, b) == LocalDay(a) - LocalDay(b)

\* differenceInDays(a, b): full days between the two local times
differenceInDays(a, b) ==
    LET sign == compareLocalAsc(a, b)
        difference == Abs(differenceInCalendarDays(a, b))
        back == addDays(a, -(sign * difference))
        isLastDayNotFull == IF compareLocalAsc(back, b) = -sign THEN 1 ELSE 0
    IN  sign * (difference - isLastDayNotFull)

\* Math.round(n / w) for a positive integer w: halves round up
MathRound(n, w) == (2 * n + w) \div (2 * w)

\* ------------------------------------------------------ Index: the window
EarlierOf(a, b) == IF a < b THEN a ELSE b

\* startDate prop: the earliest of project start and task start, less 7 days
WindowStart(proj, task) ==
    EarlierOf(ParseDate(task.start_date), ParseDate(proj.start_date))
        - BufferDays * HoursPerDay * 1

\* ------------------------------------------------- TaskBar: one rendering
startDate == WindowStart(project, barTask)

taskStart == ParseDate(barTask.start_date)

taskEnd == ParseDate(barTask.end_date)

taskDuration == differenceInDays(taskEnd, taskStart) + 1

taskOffset == differenceInDays(taskStart, startDate)

\* style left / width of the bar
BarLeft(offset, w) == offset * w + BarInsetLeft

BarWidth(duration, w) == duration * w - BarInsetWidth

\* ------------------------------------------------ TaskBar: handleMouseDown
\* what the listeners of one handleMouseDown call keep from its rendering
Closure(type, x) ==
    [type |-> type, startX |-> x,
     startLeft |-> taskOffset * dayWidth,
     startWidth |-> taskDuration * dayWidth,
     task |-> barTask, taskStart |-> taskStart,
     taskOffset |-> taskOffset, taskDuration |-> taskDuration,
     startDate |-> startDate, dayWidth |-> dayWidth, onUpdate |-> onUpdate]

\* type === 'move'
MoveUpdates(c, deltaX) ==
    LET newOffset == MathRound(c.startLeft + deltaX, c.dayWidth)
        newStartDate == addDays(c.startDate, newOffset)
        newEndDate == addDays(newStartDate, c.taskDuration - 1)
    IN  IF c.onUpdate /\ newOffset >= 0
        THEN << [c.task EXCEPT !.start_date = FormatDate(newStartDate),
                               !.end_date = FormatDate(newEndDate)] >>
        ELSE << >>

\* type === 'left'
LeftAcceptedLoose(c, newOffset) ==
    c.onUpdate /\ newOffset >= 0 /\ newOffset <= c.taskOffset + c.taskDuration

LeftAccepted(c, newOffset) ==
    c.onUpdate /\ newOffset >= 0 /\ newOffset < c.taskOffset + c.taskDuration

LeftUpdates(c, deltaX) ==
    LET newOffset == MathRound(c.startLeft + deltaX, c.dayWidth)
        newStartDate == addDays(c.startDate, newOffset)
    IN  IF LeftAccepted(c, newOffset)
        THEN << [c.task EXCEPT !.start_date = FormatDate(newStartDate)] >>
        ELSE << >>

\* type === 'right'
RightUpdates(c, deltaX) ==
    LET newDuration == MathRound(c.startWidth + deltaX, c.dayWidth)
        newEndDate == addDays(c.taskStart, newDuration - 1)
    IN  IF c.onUpdate /\ newDuration > 0
        THEN << [c.task EXCEPT !.end_date = FormatDate(newEndDate)] >>
        ELSE << >>

\* handleMouseMove of one listener: the onUpdate calls it makes
handleMouseMove(c, clientX) ==
    LET deltaX == clientX - c.startX
    IN  IF c.type = "move" THEN MoveUpdates(c, deltaX)
        ELSE IF c.type = "left" THEN LeftUpdates(c, deltaX)
        ELSE RightUpdates(c, deltaX)

RECURSIVE Accepted(_)
\* how many onUpdate calls the listeners made for one event
Accepted(em) == IF em = <<>> THEN 0 ELSE Len(Head(em)) + Accepted(Tail(em))

\* handleTaskUpdate(updatedTask), the onTaskUpdate of the chart: awaits one
\* updateTask call for the update it is given, with no timer in between
handleTaskUpdateDebounced(updates) == IF updates > 1 THEN updates - 1 ELSE 0

handleTaskUpdate(updates) == updates

\* handleMouseUp of every listener: removes its handleMouseMove and itself
handleMouseUpKeepsMove(ls) == ls

handleMouseUp(ls) == SelectSeq(ls, LAMBDA c : FALSE)

\* pointer positions tried: every half day-width step around the grab point
\* of the first gesture, and the pixel before each odd step, where the
\* rounding changes; with no gesture, the positions of a mouse-down
MoveXs ==
    IF listeners = <<>>
    THEN StartXs
    ELSE { listeners[1].startX + h * (dayWidth \div 2) - e :
             h \in (-2 * MaxLeftDays)..(2 * MaxRightDays), e \in {0, 1} }
         \ { listeners[1].startX + h * dayWidth - 1 :
               h \in (0 - MaxLeftDays)..MaxRightDays }

\* useTasks with an empty project loaded
HierIdle ==
    /\ dbTasks = {} /\ dbDeps = <<>> /\ tasksData = <<>> /\ depsData = <<>>
    /\ tasksMap = << >> /\ tasks = <<>> /\ loading = FALSE
    /\ toast = NoToast /\ fetched = "answered"

DragInit ==
    /\ HierIdle
    /\ tz \in Zones
    /\ \E ps \in ProjectStartDays :
         project = [start_date |-> ps, end_date |-> ps + 30]
    /\ \E ts \in TaskStartDays, dur \in 1..MaxDuration :
         barTask = [start_date |-> ts, end_date |-> ts + dur - 1]
    /\ dayWidth \in DayWidths
    /\ onUpdate \in BOOLEAN
    /\ isDragging = FALSE
    /\ isResizing = "none"
    /\ listeners = <<>>
    /\ event = [kind |-> "none", clientX |-> 0]
    /\ emitted = <<>>
    /\ acceptedMoves = 0
    /\ updateTaskCalls = 0
    /\ HeaderIdle
    /\ TaskOpsIdle
    /\ ProjectsIdle
    /\ WalkIdle

MouseDown(type, x) ==
    /\ Len(listeners) < MaxListeners
    /\ IF type = "move"
       THEN isDragging' = TRUE /\ UNCHANGED isResizing
       ELSE isResizing' = type /\ UNCHANGED isDragging
    /\ listeners' = Append(listeners, Closure(type, x))
    /\ event' = [kind |-> "mousedown", clientX |-> x]
    /\ emitted' = <<>>
    /\ IF listeners = <<>>
       THEN acceptedMoves' = 0 /\ updateTaskCalls' = 0
       ELSE UNCHANGED <<acceptedMoves, updateTaskCalls>>
    /\ UNCHANGED <<tz, project, barTask, dayWidth, onUpdate>>
    /\ UNCHANGED besideDrag

\* a mousemove on document: every installed handleMouseMove runs
MouseMove(x) ==
    /\ acceptedMoves < MaxMoves
    /\ emitted' = [k \in 1..Len(listeners) |-> handleMouseMove(listeners[k], x)]
    /\ event' = [kind |-> "mousemove", clientX |-> x]
    /\ acceptedMoves' = acceptedMoves + Accepted(emitted')
    /\ updateTaskCalls' = updateTaskCalls + handleTaskUpdate(Accepted(emitted'))
    /\ UNCHANGED <<tz, project, barTask, dayWidth, onUpdate, isDragging,
                   isResizing, listeners>>
    /\ UNCHANGED besideDrag

\* a mouseup on document: every installed handleMouseUp runs
MouseUp ==
    /\ listeners # <<>>
    /\ isDragging' = FALSE
    /\ isResizing' = "none"
    /\ listeners' = handleMouseUp(listeners)
    /\ event' = [kind |-> "mouseup", clientX |-> 0]
    /\ emitted' = <<>>
    /\ UNCHANGED <<acceptedMoves, updateTaskCalls>>
    /\ UNCHANGED <<tz, project, barTask, dayWidth, onUpdate>>
    /\ UNCHANGED besideDrag

DragNext ==
    \/ \E type \in {"move", "left", "right"}, x \in StartXs : MouseDown(type, x)
    \/ \E x \in MoveXs : MouseMove(x)
    \/ MouseUp

SpecDrag == DragInit /\ [][DragNext]_vars

\* ------------------------------------------------ calendar view of a gesture
\* the 'yyyy-MM-dd' day whose Date (midnight UTC) is t
DateOf(t) == t \div HoursPerDay

WindowDay(c) == DateOf(c.startDate)

\* day index in the window of the start date and of the end date
OffsetOf(c) == c.task.start_date - WindowDay(c)

EndOffsetOf(c) == c.task.end_date - WindowDay(c)

\* inclusive length in days
DurationOf(c) == c.task.end_date - c.task.start_date + 1

Delta(c) == event.clientX - c.startX

\* n is px / w rounded to the nearest integer, halves up
IsRound(n, px, w) == 2 * n * w - w <= 2 * px /\ 2 * px < 2 * n * w + w

Rounds == (0 - MaxLeftDays - 2)..(BufferDays + MaxRightDays + MaxDuration + 3)

RoundOf(px, w) == CHOOSE n \in Rounds : IsRound(n, px, w)

\* round((taskOffset*dayWidth + d) / dayWidth) of a gesture
NewOffsetDays(c) == RoundOf(c.taskOffset * c.dayWidth + Delta(c), c.dayWidth)

\* round((taskDuration*dayWidth + d) / dayWidth) of a gesture
NewDurationDays(c) == RoundOf(c.taskDuration * c.dayWidth + Delta(c), c.dayWidth)

Moved == event.kind = "mousemove"

Gestures(type) == { k \in 1..Len(listeners) : listeners[k].type = type }

NoOffsetZone == tz.before = 0 /\ tz.after = 0

\* C6: move drag.  newOffsetDays = round((taskOffset*dayWidth + d)/dayWidth);
\* an update is emitted iff newOffsetDays >= 0 and onUpdate exists; it has
\* start = windowStart + newOffsetDays and end = start + duration - 1, the
\* task's inclusive duration.
C6_MoveDrag ==
    Moved => \A k \in Gestures("move") :
        LET c == listeners[k]
            n == NewOffsetDays(c)
        IN  /\ (emitted[k] # <<>>) <=> (n >= 0 /\ c.onUpdate)
            /\ emitted[k] # <<>> =>
                 /\ Len(emitted[k]) = 1
                 /\ emitted[k][1].start_date = WindowDay(c) + n
                 /\ emitted[k][1].end_date =
                        emitted[k][1].start_date + DurationOf(c) - 1

\* C7 as stated: resize-left emits only when 0 <= newOffsetDays and
\* newOffsetDays is strictly below the day index of the end date; a move with
\* newOffsetDays negative or at least that index emits nothing.
C7_Original ==
    Moved => \A k \in Gestures("left") :
        LET c == listeners[k]
            n == NewOffsetDays(c)
        IN  /\ emitted[k] # <<>> => (n >= 0 /\ n < EndOffsetOf(c))
            /\ (n < 0 \/ n >= EndOffsetOf(c)) => emitted[k] = <<>>

\* C7 (amended): resize-left emits an update iff onUpdate exists and
\* 0 <= newOffsetDays < taskOffset + taskDuration.  That bound is at most one
\* more than the day index of the end date, so newOffsetDays may equal that
\* index and never exceeds it.  The update keeps the end date, and its start
\* is never after the end date (it may equal it).
C7_ResizeLeft ==
    Moved => \A k \in Gestures("left") :
        LET c == listeners[k]
            n == NewOffsetDays(c)
        IN  /\ (emitted[k] # <<>>) <=>
                 (c.onUpdate /\ n >= 0 /\ n < c.taskOffset + c.taskDuration)
            /\ c.taskOffset + c.taskDuration <= EndOffsetOf(c) + 1
            /\ emitted[k] # <<>> =>
                 /\ n <= EndOffsetOf(c)
                 /\ Len(emitted[k]) = 1
                 /\ emitted[k][1].end_date = c.task.end_date
                 /\ emitted[k][1].start_date <= emitted[k][1].end_date

C7_Witness ==
    /\ Moved
    /\ \E k \in Gestures("left") :
         LET c == listeners[k]
         IN  /\ NewOffsetDays(c) = EndOffsetOf(c)
             /\ DurationOf(c) > 1
             /\ emitted[k] # <<>>
             /\ emitted[k][1].start_date = emitted[k][1].end_date

\* C8: resize-right drag.  newDurationDays = round((duration*dayWidth + d) /
\* dayWidth); an update is emitted iff newDurationDays > 0 (and onUpdate
\* exists); it has end = original start + newDurationDays - 1 and the start
\* unchanged.
C8_ResizeRight ==
    Moved => \A k \in Gestures("right") :
        LET c == listeners[k]
            n == NewDurationDays(c)
        IN  /\ (emitted[k] # <<>>) <=> (n > 0 /\ c.onUpdate)
            /\ emitted[k] # <<>> =>
                 /\ Len(emitted[k]) = 1
                 /\ emitted[k][1].start_date = c.task.start_date
                 /\ emitted[k][1].end_date = c.task.start_date + n - 1

\* C9: a task starting k days after windowStart has horizontal offset
\* k * dayWidth px (0 px for k = 0), in the rendering and as the reference of
\* every gesture.
C9_OffsetPx ==
    /\ taskOffset * dayWidth =
           (barTask.start_date - DateOf(startDate)) * dayWidth
    /\ \A k \in 1..Len(listeners) :
           listeners[k].startLeft = OffsetOf(listeners[k]) * listeners[k].dayWidth

\* C10: a task's width is ((end - start in days) + 1) * dayWidth px, in the
\* rendering and as the reference of every gesture; dayWidth px for a task
\* that starts and ends on the same day.
C10_WidthPx ==
    /\ taskDuration * dayWidth =
           (barTask.end_date - barTask.start_date + 1) * dayWidth
    /\ \A k \in 1..Len(listeners) :
           listeners[k].startWidth = DurationOf(listeners[k]) * listeners[k].dayWidth

\* ------------------------------------------- where the geometry claims hold
\* in a zone at UTC the move and resize-right formulas and the offset and
\* width of the drag references are as C6, C8, C9 and C10 state them
MoveDragAtUTC == NoOffsetZone => C6_MoveDrag

ResizeRightAtUTC == NoOffsetZone => C8_ResizeRight

OffsetPxAtUTC == NoOffsetZone => C9_OffsetPx

WidthPxAtUTC == NoOffsetZone => C10_WidthPx

\* ------------------------------------------------ updates of one gesture
\* the acceptance condition of the gesture of closure c at the pointer
\* position of the last event
Accepts(c) ==
    /\ c.onUpdate
    /\ CASE c.type = "move" -> NewOffsetDays(c) >= 0
         [] c.type = "left" -> /\ NewOffsetDays(c) >= 0
                               /\ NewOffsetDays(c) < c.taskOffset + c.taskDuration
         [] OTHER -> NewDurationDays(c) > 0

\* the gestures whose acceptance condition the last event passed
AcceptedGestures == { k \in 1..Len(listeners) : Accepts(listeners[k]) }

\* the update of gesture k differs from the task only in the dates of its type
CarriesNewDates(k) ==
    LET c == listeners[k]
        u == emitted[k][1]
    IN  /\ c.type = "left" => u.end_date = c.task.end_date
        /\ c.type = "right" => u.start_date = c.task.start_date
        /\ c.type = "move" =>
             u.end_date - u.start_date = c.taskDuration - 1

\* C15: drag operations are debounced: a gesture of n accepted mouse-moves
\* (n at least 2, so that something can be saved) results in fewer than n
\* updateTask calls.
C15_Debounced == acceptedMoves >= 2 => updateTaskCalls < acceptedMoves

Updates ==
    { <<listeners[k].task, emitted[k][1]>> :
        k \in { j \in 1..Len(listeners) : emitted[j] # <<>> } }

\* C22: for a task whose start date is not after its end date at mouse-down,
\* every update emitted by a move, resize-left or resize-right gesture carries
\* a start date that is not after its end date.
C22_StartNotAfterEnd ==
    Moved => \A p \in Updates :
        p[1].start_date <= p[1].end_date => p[2].start_date <= p[2].end_date

\* at UTC no update has its start after its end
StartNotAfterEndAtUTC == NoOffsetZone => C22_StartNotAfterEnd

\* a resize-right update whose end date is before the unchanged start date
EndBeforeStart ==
    /\ Moved
    /\ \E k \in Gestures("right") :
         /\ emitted[k] # <<>>
         /\ emitted[k][1].start_date = listeners[k].task.start_date
         /\ emitted[k][1].end_date < emitted[k][1].start_date

\* ======================================================== TimelineHeader
\* input domains: day 1 is 2024-01-01
MaxWindowDays == 34                 \* days from chartStart to chartEnd
ChartStartDays == {-3, 1, 29}

\* the calendar around day 1: December 2023 to March 2024
FirstCalendarDay == -30
MonthLengths == <<31, 31, 29, 31>>

RECURSIVE MonthIndex(_, _)
\* which month of MonthLengths a calendar day falls in; m is the month tried
\* and first its first day
MonthIndex(day, m) ==
    LET first == FirstCalendarDay +
                 (IF m > 1 THEN 31 ELSE 0) + (IF m > 2 THEN 31 ELSE 0) +
                 (IF m > 3 THEN 29 ELSE 0)
    IN  IF m = Len(MonthLengths) \/ day < first + MonthLengths[m]
        THEN m
        ELSE MonthIndex(day, m + 1)

\* getMonth(date), getYear(date): of the local calendar day
getMonth(t) == (MonthIndex(LocalDay(t), 1) + 10) % 12

getYear(t) == IF MonthIndex(LocalDay(t), 1) = 1 THEN 2023 ELSE 2024

\* format(date, 'MMM yyyy')
FormatMonth(t) == [month |-> getMonth(t), year |-> getYear(t)]

\* GanttChart: totalDays
totalDays == differenceInDays(chartEnd, chartStart) + 1

RECURSIVE MonthLoop(_, _)
\* the for loop of TimelineHeader from day i on; st holds months,
\* currentMonth, currentYear, monthDays and monthStartDay
MonthLoop(i, st) ==
    IF i >= totalDays
    THEN st
    ELSE LET date == addDays(chartStart, i)
             month == getMonth(date)
             year == getYear(date)
         IN  IF month # st.currentMonth \/ year # st.currentYear
             THEN MonthLoop(i + 1,
                    [months |-> Append(st.months,
                        [month |-> FormatMonth(addDays(chartStart, i - 1)),
                         days |-> st.monthDays,
                         startDay |-> st.monthStartDay]),
                     currentMonth |-> month, currentYear |-> year,
                     monthStartDay |-> i, monthDays |-> 1])
             ELSE MonthLoop(i + 1, [st EXCEPT !.monthDays = st.monthDays + 1])

\* the months array of one rendering: the loop, then the last month
MonthGroups ==
    LET st == MonthLoop(0, [months |-> <<>>,
                            currentMonth |-> getMonth(chartStart),
                            currentYear |-> getYear(chartStart),
                            monthDays |-> 0, monthStartDay |-> 0])
    IN  Append(st.months, [month |-> FormatMonth(chartEnd),
                           days |-> st.monthDays,
                           startDay |-> st.monthStartDay])

HeaderInit ==
    /\ HierIdle
    /\ TaskOpsIdle
    /\ ProjectsIdle
    /\ WalkIdle
    /\ BarIdle
    /\ tz \in Zones
    /\ chartStart \in { ParseDate(d) : d \in ChartStartDays }
    /\ \E len \in 0..MaxWindowDays :
         chartEnd = chartStart + (len - 1) * HoursPerDay
    /\ months = <<>>

\* one rendering of TimelineHeader
RenderHeader ==
    /\ months = <<>>
    /\ months' = MonthGroups
    /\ UNCHANGED <<chartStart, chartEnd>>
    /\ UNCHANGED besideHeader

HeaderNext == RenderHeader

SpecHeader == HeaderInit /\ [][HeaderNext]_vars

\* --------------------------------------------- the window as calendar days
\* (month, year) of a calendar day
CalendarMonth(d) ==
    LET m == MonthIndex(d, 1)
    IN  [month |-> (m + 10) % 12, year |-> IF m = 1 THEN 2023 ELSE 2024]

\* the days 'yyyy-MM-dd' from the window's start date to its end date
WindowDays == DateOf(chartStart)..DateOf(chartEnd)

DaysIn(label) == { d \in WindowDays : CalendarMonth(d) = label }

Rendered == months # <<>>

\* C11: for a window of at least one day, the month groups of the header are
\* the distinct (month, year) pairs of the window's days, in order: as many
\* groups as pairs, each group starting at the first window day of its month
\* and counting the window days in it.
C11_MonthGroups ==
    (Rendered /\ chartEnd >= chartStart) =>
        /\ Len(months) = Cardinality({ CalendarMonth(d) : d \in WindowDays })
        /\ \A j \in 1..Len(months) :
             /\ months[j].days = Cardinality(DaysIn(months[j].month))
             /\ \A d \in DaysIn(months[j].month) :
                    months[j].startDay <= d - DateOf(chartStart)
             /\ \A k \in 1..Len(months) :
                    j < k => months[j].startDay < months[k].startDay

\* at UTC the groups are as C11 states
MonthGroupsAtUTC == NoOffsetZone => C11_MonthGroups

\* a window whose end is before its start still gets one group, of 0 days
EmptyWindowGroup ==
    (Rendered /\ NoOffsetZone /\ chartEnd < chartStart) =>
        (Len(months) = 1 /\ months[1].days = 0)

\* the example of C11: 2024-01-29..2024-02-03 at UTC is Jan 2024 with 3 days
\* and Feb 2024 with 3 days
MonthExampleAtUTC ==
    (Rendered /\ NoOffsetZone /\ DateOf(chartStart) = 29 /\ DateOf(chartEnd) = 34)
        => months = << [month |-> [month |-> 0, year |-> 2024],
                        days |-> 3, startDay |-> 0],
                       [month |-> [month |-> 1, year |-> 2024],
                        days |-> 3, startDay |-> 3] >>

RECURSIVE SumDays(_)
\* the day counts of a list of groups, added up
SumDays(groups) ==
    IF groups = <<>> THEN 0 ELSE Head(groups).days + SumDays(Tail(groups))

\* the groups follow one another from day 0 on and none is empty
Contiguous ==
    /\ months[1].startDay = 0
    /\ \A j \in 1..Len(months) : months[j].days >= 1
    /\ \A j \in 2..Len(months) :
         /\ months[j].startDay = months[j - 1].startDay + months[j - 1].days
         /\ months[j].startDay > months[j - 1].startDay

\* C29: for every window with windowEnd >= windowStart the month groups
\* partition the window: startDay values strictly increasing from 0, each the
\* previous startDay plus the previous day count, every group of at least 1
\* day, and the day counts adding up to (windowEnd - windowStart in days) + 1.
C29_Partition ==
    (Rendered /\ chartEnd >= chartStart) =>
        /\ Contiguous
        /\ SumDays(months) = DateOf(chartEnd) - DateOf(chartStart) + 1

\* the groups always partition the days the loop went through: the totalDays
\* that GanttChart computed
PartitionOfTotalDays ==
    (Rendered /\ chartEnd >= chartStart) =>
        (Contiguous /\ SumDays(months) = totalDays)

\* where no clock change falls in the window, C29 holds
PartitionWithoutClockChange ==
    (tz.before = tz.after) => C29_Partition

\* ============================================ GanttChart: window and zoom
MinDayWidth == 20
MaxDayWidth == 100
ZoomStep == 10

\* input domains: a task that starts before, with or after the project and
\* ends before or after it
ChartTaskStartDays == {5, 8, 11}
ChartProjectStartDays == {8, 12}    \* before and after the clock change
ProjectDays == {3, 5}           \* days from project start to project end

LaterOf(a, b) == IF a > b THEN a ELSE b

\* endDate prop: the latest of project end and task end, plus 7 days
WindowEnd(proj, task) ==
    LaterOf(ParseDate(task.end_date), ParseDate(proj.end_date))
        + BufferDays * HoursPerDay * 1

\* Math.max(20, dayWidth - 10)
ZoomedOut(w) == LaterOf(MinDayWidth, w - ZoomStep)

\* Math.min(100, dayWidth + 10)
ZoomedInUnbounded(w) == w + ZoomStep

ZoomedIn(w) == EarlierOf(MaxDayWidth, w + ZoomStep)

\* Index renders GanttChart for a project with one task
ChartInit ==
    /\ HierIdle
    /\ TaskOpsIdle
    /\ ProjectsIdle
    /\ WalkIdle
    /\ tz \in Zones
    /\ \E ps \in ChartProjectStartDays, len \in ProjectDays :
         project = [start_date |-> ps, end_date |-> ps + len]
    /\ \E ts \in ChartTaskStartDays, dur \in 1..MaxDuration :
         barTask = [start_date |-> ts, end_date |-> ts + dur - 1]
    /\ dayWidth = DefaultDayWidth
    /\ onUpdate = TRUE
    /\ isDragging = FALSE
    /\ isResizing = "none"
    /\ listeners = <<>>
    /\ event = [kind |-> "none", clientX |-> 0]
    /\ emitted = <<>>
    /\ acceptedMoves = 0
    /\ updateTaskCalls = 0
    /\ chartStart = WindowStart(project, barTask)
    /\ chartEnd = WindowEnd(project, barTask)
    /\ months = <<>>

\* the Zoom Out button
ZoomOut ==
    /\ dayWidth' = ZoomedOut(dayWidth)
    /\ UNCHANGED <<tz, project, barTask, onUpdate, isDragging, isResizing,
                   listeners, event, emitted, acceptedMoves, updateTaskCalls>>
    /\ UNCHANGED besideDrag

\* the Zoom In button
ZoomIn ==
    /\ dayWidth' = ZoomedIn(dayWidth)
    /\ UNCHANGED <<tz, project, barTask, onUpdate, isDragging, isResizing,
                   listeners, event, emitted, acceptedMoves, updateTaskCalls>>
    /\ UNCHANGED besideDrag

ChartNext == ZoomOut \/ ZoomIn

SpecChart == ChartInit /\ [][ChartNext]_vars

\* ------------------------------------------------- the claims on the chart
\* C26: with windowStart = min(project start, earliest task start) - 7 days
\* and windowEnd = max(project end, latest task end) + 7 days, a task with
\* start <= end has taskOffset >= 7 and taskOffset + taskDuration <=
\* totalDays - 7.
C26_Margin ==
    barTask.start_date <= barTask.end_date =>
        /\ taskOffset >= BufferDays
        /\ taskOffset + taskDuration <= totalDays - BufferDays

\* where no clock change falls in the window the margins are as C26 states
MarginWithoutClockChange == (tz.before = tz.after) => C26_Margin

\* the window itself has the 7-day margin in calendar days
MarginInCalendarDays ==
    /\ DateOf(chartStart) + BufferDays <= barTask.start_date
    /\ barTask.end_date + BufferDays <= DateOf(chartEnd)
    /\ DateOf(chartStart) + BufferDays <= project.start_date
    /\ project.end_date + BufferDays <= DateOf(chartEnd)

\* C30: dayWidth is always a multiple of 10 within 20..100, so positive; a
\* zoom action changes it by one step of 10 or, at 20 going out and at 100
\* going in, not at all.
C30_ZoomRange ==
    /\ [](/\ dayWidth % ZoomStep = 0
          /\ MinDayWidth <= dayWidth /\ dayWidth <= MaxDayWidth
          /\ dayWidth > 0)
    /\ [][ /\ dayWidth' \in {dayWidth - ZoomStep, dayWidth, dayWidth + ZoomStep}
           /\ dayWidth' = dayWidth => dayWidth \in {MinDayWidth, MaxDayWidth} ]_vars

\* the widest zoom level, reached from 40 by Zoom In
C30_Witness == dayWidth = MaxDayWidth

\* ============================================ useTasks: calls and answers
MaxStarted == 1     \* useTasks calls made after mounting

TaskIds == {1, 2, 3}    \* ids of the rows the project has over time

Mutations == {"createTask", "updateTask", "deleteTask", "addDependency",
              "removeDependency", "updateTaskOrder"}

Projects == {NULL, ProjectId, OtherProject}

\* the pair addDependency and removeDependency are called with
DepArg == [predecessor_id |-> 1, successor_id |-> 2]

\* description of the toast of a mutation that succeeded or failed;
\* updateTaskOrder shows none, so the last toast stays
SuccessToast(op, last) ==
    CASE op = "createTask" -> "Task created successfully"
      [] op = "updateTask" -> "Task updated successfully"
      [] op = "deleteTask" -> "Task deleted successfully"
      [] op = "addDependency" -> "Dependency added successfully"
      [] op = "removeDependency" -> "Dependency removed successfully"
      [] OTHER -> last

FailureToast(op, last) ==
    CASE op = "createTask" -> "Failed to create task"
      [] op = "updateTask" -> "Failed to update task"
      [] op = "deleteTask" -> "Failed to delete task"
      [] op = "addDependency" -> "Failed to add dependency"
      [] op = "removeDependency" -> "Failed to remove dependency"
      [] OTHER -> last

\* what the call returns: data or null, true or false, nothing for fetchTasks
Returned(op, ok) ==
    IF op \in {"createTask", "updateTask"}
    THEN IF ok THEN "data" ELSE "null"
    ELSE IF op \in Mutations
         THEN IF ok THEN "true" ELSE "false"
         ELSE "none"

\* ------------------------------------------------- storage: what a call does
RECURSIVE Cascade(_, _, _)
\* ON DELETE CASCADE over parent_id: the rows in ids and all rows below them
Cascade(rows, ids, fuel) ==
    IF fuel = 0
    THEN ids
    ELSE Cascade(rows, ids \cup { r.id : r \in { q \in rows : q.parent_id \in ids } },
                 fuel - 1)

DeleteRows(rows, ids) ==
    { r \in rows : r.id \notin Cascade(rows, ids, Cardinality(rows)) }

\* ON DELETE CASCADE over predecessor_id and successor_id
DeleteEdges(deps, rows) ==
    SelectSeq(deps, LAMBDA d : d.predecessor_id \in RowIds(rows)
                               /\ d.successor_id \in RowIds(rows))

FreeIds == TaskIds \ RowIds(dbTasks)

NewId == CHOOSE i \in FreeIds : \A j \in FreeIds : i <= j

HasEdge(arg) ==
    \E k \in 1..Len(dbDeps) : /\ dbDeps[k].predecessor_id = arg.predecessor_id
                              /\ dbDeps[k].successor_id = arg.successor_id

\* the arguments a mutation is called with
Args(op) ==
    CASE op = "createTask" ->
           { TaskRow(0, projectId, NULL, Len(tasks)) }
      [] op = "updateTaskOrder" -> { [id |-> 1, order_index |-> 1] }
      [] op = "updateTask" -> { [id |-> 2] }
      [] op = "deleteTask" -> { [id |-> 1] }
      [] OTHER -> { DepArg }

\* whether the storage call of a mutation can be answered without an error
CanSucceed(op, arg) ==
    CASE op = "createTask" -> FreeIds # {}
      [] op = "updateTask" -> arg.id \in RowIds(dbTasks)
      [] op = "addDependency" ->
           /\ ~HasEdge(arg)
           /\ {arg.predecessor_id, arg.successor_id} \subseteq RowIds(dbTasks)
      [] OTHER -> TRUE

\* the tables after the (first) storage call of a mutation succeeded
TasksAfter(op, arg) ==
    CASE op = "createTask" -> dbTasks \cup { [arg EXCEPT !.id = NewId] }
      [] op = "deleteTask" ->
           DeleteRows(dbTasks, { r.id : r \in { q \in dbTasks : q.parent_id = arg.id } })
      [] op = "updateTaskOrder" ->
           { IF r.id = arg.id THEN [r EXCEPT !.order_index = arg.order_index] ELSE r
             : r \in dbTasks }
      [] OTHER -> dbTasks

DepsAfter(op, arg) ==
    CASE op = "addDependency" ->
           Append(dbDeps, DepRow(Len(dbDeps) + 1, arg.predecessor_id, arg.successor_id))
      [] op = "removeDependency" ->
           SelectSeq(dbDeps, LAMBDA d : ~(d.predecessor_id = arg.predecessor_id
                                          /\ d.successor_id = arg.successor_id))
      [] OTHER -> DeleteEdges(dbDeps, TasksAfter(op, arg))

\* ------------------------------------------------------ useTasks: the calls
Remove(s, i) == SubSeq(s, 1, i - 1) \o SubSeq(s, i + 1, Len(s))

NoArg == [id |-> 0]

\* a call of the closure of project proj, awaiting the answer named by pc;
\* late: a call started after this one has replaced the forest meanwhile;
\* rows: the task rows storage held when the call was made
Call(op, proj, arg, pc) ==
    [op |-> op, proj |-> proj, arg |-> arg, pc |-> pc, data |-> <<>>, late |-> FALSE,
     rows |-> dbTasks]

Resolved(c, ok, fetch) ==
    [op |-> c.op, result |-> Returned(c.op, ok), fetch |-> fetch, late |-> c.late]

\* setTasks(rootTasks): the built forest in place of the one shown
SetTasksMerged(built, c) ==
    [roots |-> tasks \o built.roots,
     map |-> [i \in DOMAIN built.map \cup DOMAIN tasksMap |->
                IF i \in DOMAIN built.map THEN built.map[i] ELSE tasksMap[i]]]

SetTasksInOrder(built, c) ==
    IF c.late
    THEN [roots |-> tasks, map |-> tasksMap]
    ELSE [roots |-> built.roots, map |-> built.map]

SetTasks(built, c) == [roots |-> built.roots, map |-> built.map]

\* the channels after the subscription effect ran for project p: the cleanup
\* of the last run removed its channel
ResubscribeLeak(old, p) == IF p = NULL THEN old ELSE Append(old, p)

Resubscribe(old, p) == IF p = NULL THEN <<>> ELSE <<p>>

\* fetchTasks() of the closure of project p, up to its first await
BeginFetch(op, p) ==
    IF p = NULL
    THEN /\ tasks' = <<>>
         /\ tasksMap' = << >>
         /\ loading' = FALSE
         /\ done' = [op |-> op, result |-> "none", fetch |-> "none", late |-> FALSE]
         /\ UNCHANGED calls
    ELSE /\ loading' = TRUE
         /\ calls' = Append(calls, Call(op, p, NoArg, "tasks"))
         /\ UNCHANGED <<tasks, tasksMap, done>>

\* refetch(): fetchTasks called by the component
Refetch ==
    /\ started < MaxStarted
    /\ started' = started + 1
    /\ BeginFetch("fetch", projectId)
    /\ UNCHANGED <<dbTasks, dbDeps, tasksData, depsData, toast, fetched,
                   projectId, channels>>
    /\ UNCHANGED besideTasks

\* a rendering with another projectId: both effects run again
SetProject(p) ==
    /\ p # projectId
    /\ started < MaxStarted
    /\ started' = started + 1
    /\ projectId' = p
    /\ channels' = Resubscribe(channels, p)
    /\ BeginFetch("fetch", p)
    /\ UNCHANGED <<dbTasks, dbDeps, tasksData, depsData, toast, fetched>>
    /\ UNCHANGED besideTasks

\* a postgres_changes notification on channel k: its callback runs
Notification(k) ==
    /\ started < MaxStarted
    /\ started' = started + 1
    /\ BeginFetch("notify", channels[k])
    /\ UNCHANGED <<dbTasks, dbDeps, tasksData, depsData, toast, fetched,
                   projectId, channels>>
    /\ UNCHANGED besideTasks

\* a mutation is called and its (first) storage call is answered
Mutate(op, arg, ok) ==
    /\ projectId # NULL
    /\ started < MaxStarted
    /\ started' = started + 1
    /\ ok => CanSucceed(op, arg)
    /\ IF ok
       THEN /\ dbTasks' = TasksAfter(op, arg)
            /\ dbDeps' = DepsAfter(op, arg)
            /\ IF op = "deleteTask"
               THEN /\ calls' = Append(calls, Call(op, projectId, arg, "self"))
                    /\ UNCHANGED loading
               ELSE /\ calls' = Append(calls, Call(op, projectId, arg, "tasks"))
                    /\ loading' = TRUE
            /\ UNCHANGED <<toast, done>>
       ELSE /\ toast' = FailureToast(op, toast)
            /\ done' = Resolved(Call(op, projectId, arg, "self"), FALSE, "none")
            /\ UNCHANGED <<dbTasks, dbDeps, calls, loading>>
    /\ UNCHANGED <<tasksData, depsData, tasksMap, tasks, fetched, projectId, channels>>
    /\ UNCHANGED besideTasks

\* deleteTask: the delete of the task itself is answered
DeleteSelf(i, ok) ==
    /\ calls[i].pc = "self"
    /\ IF ok
       THEN /\ dbTasks' = DeleteRows(dbTasks, {calls[i].arg.id})
            /\ dbDeps' = DeleteEdges(dbDeps, DeleteRows(dbTasks, {calls[i].arg.id}))
            /\ calls' = [calls EXCEPT ![i].pc = "tasks"]
            /\ loading' = TRUE
            /\ UNCHANGED <<toast, done>>
       ELSE /\ toast' = FailureToast(calls[i].op, toast)
            /\ done' = Resolved(calls[i], FALSE, "none")
            /\ calls' = Remove(calls, i)
            /\ UNCHANGED <<dbTasks, dbDeps, loading>>
    /\ UNCHANGED <<tasksData, depsData, tasksMap, tasks, fetched, projectId, channels,
                   started>>
    /\ UNCHANGED besideTasks

\* fetchTasks threw: its toast, loading off, then the rest of the call
FetchFailed(i) ==
    /\ toast' = SuccessToast(calls[i].op, LoadFailed)
    /\ loading' = FALSE
    /\ fetched' = "error"
    /\ done' = Resolved(calls[i], TRUE, "failed")
    /\ calls' = Remove(calls, i)
    /\ UNCHANGED <<tasks, tasksMap, tasksData, depsData>>

\* the tasks query of call i is answered
AnswerTasks(i, ok) ==
    /\ calls[i].pc = "tasks"
    /\ IF ok
       THEN /\ \E data \in TaskQueryResults(dbTasks, calls[i].proj) :
                 calls' = [calls EXCEPT ![i].pc = "deps", ![i].data = data]
            /\ UNCHANGED <<tasks, tasksMap, tasksData, depsData, loading, toast,
                           fetched, done>>
       ELSE FetchFailed(i)
    /\ UNCHANGED <<dbTasks, dbDeps, projectId, channels, started>>
    /\ UNCHANGED besideTasks

\* the dependency query of call i is answered
AnswerDeps(i, ok) ==
    /\ calls[i].pc = "deps"
    /\ LET deps == DepQueryResult(dbDeps, calls[i].data)
           built == BuildHierarchy(calls[i].data, deps)
       IN  IF ok /\ ~built.threw
           THEN /\ tasks' = SetTasks(built, calls[i]).roots
                /\ tasksMap' = SetTasks(built, calls[i]).map
                /\ tasksData' = calls[i].data
                /\ depsData' = deps
                /\ loading' = FALSE
                /\ fetched' = "answered"
                /\ toast' = SuccessToast(calls[i].op, toast)
                /\ done' = Resolved(calls[i], TRUE, "built")
                /\ calls' = Remove([k \in 1..Len(calls) |->
                                      IF k < i THEN [calls[k] EXCEPT !.late = TRUE]
                                      ELSE calls[k]], i)
           ELSE FetchFailed(i)
    /\ UNCHANGED <<dbTasks, dbDeps, projectId, channels, started>>
    /\ UNCHANGED besideTasks

TasksInit ==
    /\ DragIdle
    /\ HeaderIdle
    /\ ProjectsIdle
    /\ WalkIdle
    /\ dbTasks = { TaskRow(1, ProjectId, NULL, 0), TaskRow(2, ProjectId, 1, 0),
                   TaskRow(ForeignTask, OtherProject, NULL, 0) }
    /\ dbDeps \in { <<>>, << DepRow(1, 1, 2) >> }
    /\ tasksData = <<>> /\ depsData = <<>> /\ tasksMap = << >> /\ tasks = <<>>
    /\ toast = NoToast
    /\ fetched = "pending"
    /\ projectId \in Projects
    /\ channels = Resubscribe(<<>>, projectId)
    /\ done = NoCall
    /\ started = 0
    /\ IF projectId = NULL
       THEN loading = FALSE /\ calls = <<>>
       ELSE loading = TRUE /\ calls = << Call("fetch", projectId, NoArg, "tasks") >>

TasksNext ==
    \/ Refetch
    \/ \E p \in Projects : SetProject(p)
    \/ \E k \in 1..Len(channels) : Notification(k)
    \/ \E op \in Mutations : \E arg \in Args(op), ok \in BOOLEAN : Mutate(op, arg, ok)
    \/ \E i \in 1..Len(calls), ok \in BOOLEAN : DeleteSelf(i, ok)
    \/ \E i \in 1..Len(calls), ok \in BOOLEAN : AnswerTasks(i, ok)
    \/ \E i \in 1..Len(calls), ok \in BOOLEAN : AnswerDeps(i, ok)

SpecTasks == TasksInit /\ [][TasksNext]_vars

\* ================================== Index: creating and deleting, one by one
\* The handlers of the page called one after the other, each with all its
\* storage calls and its refetch answered before the next one starts.

\* fetchTasks of the project, answered from the rows that storage holds after
\* the handler's writes
RefetchAnswered ==
    /\ \E data \in TaskQueryResults(dbTasks', ProjectId) :
         LET deps == DepQueryResult(dbDeps', data)
             built == BuildHierarchy(data, deps)
         IN  /\ tasksData' = data
             /\ depsData' = deps
             /\ IF built.threw
                THEN /\ tasks' = tasks
                     /\ tasksMap' = tasksMap
                ELSE /\ tasks' = built.roots
                     /\ tasksMap' = built.map
    /\ loading' = FALSE
    /\ fetched' = "answered"

\* a new project: no task, the fetch of the mount answered
OrderInit ==
    /\ DragIdle
    /\ HeaderIdle
    /\ TaskOpsIdle
    /\ ProjectsIdle
    /\ WalkIdle
    /\ dbTasks = { TaskRow(ForeignTask, OtherProject, NULL, 0) }
    /\ dbDeps = <<>>
    /\ tasksData = <<>>
    /\ depsData = <<>>
    /\ tasksMap = << >>
    /\ tasks = <<>>
    /\ loading = FALSE
    /\ toast = NoToast
    /\ fetched = "answered"

\* the row handleTaskCreate hands to createTask: parentTaskId is null or the
\* task whose "add subtask" was chosen, order_index the length of the root list
NewTaskRow(parentTaskId) == TaskRow(0, currentProject, parentTaskId, Len(tasks))

\* handleTaskCreate, the insert of createTask answered with the row or an error
handleTaskCreate(parentTaskId, ok) ==
    /\ currentProject # NULL
    /\ parentTaskId \in {NULL} \cup Ids(tasksData)
    /\ ok => CanSucceed("createTask", NewTaskRow(parentTaskId))
    /\ IF ok
       THEN /\ dbTasks' = TasksAfter("createTask", NewTaskRow(parentTaskId))
            /\ dbDeps' = dbDeps
            /\ RefetchAnswered
            /\ toast' = SuccessToast("createTask", toast)
       ELSE /\ toast' = FailureToast("createTask", toast)
            /\ UNCHANGED <<dbTasks, dbDeps, tasksData, depsData, tasksMap, tasks,
                           loading, fetched>>
    /\ UNCHANGED besideHier

\* deleteTask of a task of the chart, both deletes answered without an error
deleteTask(id) ==
    /\ id \in Ids(tasksData)
    /\ LET below == TasksAfter("deleteTask", [id |-> id])
       IN  /\ dbTasks' = DeleteRows(below, {id})
           /\ dbDeps' = DeleteEdges(dbDeps, DeleteRows(below, {id}))
    /\ RefetchAnswered
    /\ toast' = SuccessToast("deleteTask", toast)
    /\ UNCHANGED besideHier

OrderNext ==
    \/ \E parentTaskId \in {NULL} \cup TaskIds, ok \in BOOLEAN :
         handleTaskCreate(parentTaskId, ok)
    \/ \E id \in TaskIds : deleteTask(id)

SpecOrder == OrderInit /\ [][OrderNext]_vars

\* ------------------------------------------------ the forest and the calls
\* the forest shown is the one built from the rows of the last answer
ShowsLastAnswer ==
    LET built == BuildHierarchy(tasksData, depsData)
    IN  tasks = built.roots /\ tasksMap = built.map

Succeeded == done.op \in Mutations /\ done.result \in {"data", "true"}

MutationFails(op) ==
    \/ \E arg \in Args(op) : Mutate(op, arg, FALSE)
    \/ \E i \in 1..Len(calls) : calls[i].op = op /\ DeleteSelf(i, FALSE)

FailureTexts == { FailureToast(op, NoToast) : op \in Mutations } \ {NoToast}

\* what C13 says of a step in which mutation op fails
FailsCleanly(op) ==
    /\ tasks' = tasks /\ tasksMap' = tasksMap /\ loading' = loading
    /\ \A k \in 1..Len(calls') : calls'[k] \in SeqRange(calls)
    /\ toast' \in FailureTexts
    /\ done'.op = op /\ done'.result \in {"null", "false"} /\ done'.fetch = "none"

\* C13: when the storage call of a mutation returns an error, the forest is
\* left as it was, no re-fetch is issued, a failure notification is shown and
\* the caller gets null or false.
C13_FailureLeavesState ==
    [][\A op \in Mutations : MutationFails(op) => FailsCleanly(op)]_vars

\* every mutation of useTasks but updateTaskOrder fails as C13 states
FailureOfToastingMutations ==
    [][\A op \in Mutations \ {"updateTaskOrder"} :
          MutationFails(op) => FailsCleanly(op) /\ toast' = FailureToast(op, toast)]_vars

\* updateTaskOrder fails without a notification
FailureOfUpdateTaskOrder ==
    [][MutationFails("updateTaskOrder") => toast' = toast]_vars

\* C16: the answer that arrives last decides the forest shown, whatever the
\* order of the requests: when a call has set the forest, the forest is the
\* one built from the rows that call fetched, also when a call started after
\* it had set the forest before (a late answer is not dropped).
C16_LastAnswerWins ==
    done.fetch = "built" =>
        /\ ShowsLastAnswer
        /\ depsData = SelectSeq(depsData, LAMBDA d : d.successor_id \in Ids(tasksData))

\* a late answer has replaced the forest of a newer request: no call is
\* awaiting an answer, and the rows shown are not the rows storage holds
C16_Witness ==
    /\ done.fetch = "built" /\ done.late
    /\ calls = <<>>
    /\ projectId = ProjectId
    /\ tasksData \notin TaskQueryResults(dbTasks, projectId)
    /\ ShowsLastAnswer

\* one channel, of the project id, while a project id is set
OneChannel == channels = IF projectId = NULL THEN <<>> ELSE <<projectId>>

\* a notification starts one fetchTasks of the channel's project
NotificationFetches ==
    \A k \in 1..Len(channels) :
        Notification(k) => calls' = Append(calls, Call("notify", channels[k], NoArg, "tasks"))

FetchesInFlight == { k \in 1..Len(calls) : calls[k].pc \in {"tasks", "deps"} }

\* C23: once every fetch has completed after a change of the project id, the
\* forest shown holds only tasks of the project id that is set now.
C23_ForestOfProject ==
    (calls = <<>> /\ tasks # <<>> /\ projectId # NULL) =>
        \A r \in SeqRange(tasksData) : r.project_id = projectId

\* the answer of a fetch sets the forest of the project the fetch was started
\* for, whatever project id is set when it arrives
ForestOfFetchedProject ==
    [][\A i \in 1..Len(calls) :
          (calls[i].pc = "deps" /\ AnswerDeps(i, TRUE) /\ tasks' # tasks) =>
              \A r \in SeqRange(tasksData') : r.project_id = calls[i].proj]_vars

\* C24: loading is true whenever at least one fetchTasks call is in flight and
\* false once every fetch has completed.
C24_LoadingFlag == loading <=> (FetchesInFlight # {})

\* once every fetch has completed, loading is false
LoadingEndsFalse == (FetchesInFlight = {}) => ~loading

\* C28: after any sequence of handleTaskCreate and deleteTask calls, no two
\* tasks of the fetched list with the same parent have the same order_index.
C28_SiblingOrder ==
    \A a, b \in SeqRange(tasksData) :
        (a.id # b.id /\ a.parent_id = b.parent_id) => a.order_index # b.order_index

\* steps in which deleteTask gets an error from its first and from its
\* second delete
FirstDeleteFails == \E arg \in Args("deleteTask") : Mutate("deleteTask", arg, FALSE)

SecondDeleteFails(i) == calls[i].op = "deleteTask" /\ DeleteSelf(i, FALSE)

\* C25: deleteTask deletes the rows whose parent_id is the given id first and
\* the task row after them, issues no second delete when the first fails,
\* and whenever it returns false the task rows in storage are those that
\* were there when it was called.
C25_AllOrNothing ==
    [][ /\ FirstDeleteFails =>
             (dbTasks' = dbTasks /\ calls' = calls /\ done'.result = "false")
        /\ \A i \in 1..Len(calls) :
             SecondDeleteFails(i) =>
                 (done'.result = "false" /\ dbTasks' = calls[i].rows) ]_vars

\* the parts of C25 that hold: the first delete takes the rows below the
\* task and leaves the task, the second is issued after the first succeeded,
\* a failed first delete ends the call with storage untouched, and a failed
\* second delete ends it with the task row still there
DeleteTaskSteps ==
    [][ /\ \A arg \in Args("deleteTask") :
             /\ Mutate("deleteTask", arg, TRUE) =>
                  /\ \A r \in dbTasks' : r.parent_id # arg.id
                  /\ \A r \in dbTasks : r.id = arg.id => r \in dbTasks'
                  /\ calls' = Append(calls, Call("deleteTask", projectId, arg, "self"))
             /\ Mutate("deleteTask", arg, FALSE) =>
                  (dbTasks' = dbTasks /\ calls' = calls /\ done'.result = "false")
        /\ \A i \in 1..Len(calls) :
             SecondDeleteFails(i) =>
                 /\ done'.result = "false"
                 /\ dbTasks' = dbTasks
                 /\ \A r \in calls[i].rows : r.id = calls[i].arg.id => r \in dbTasks' ]_vars

\* ======================================= useProjects: calls and answers
MaxProjectCalls == 2    \* useProjects calls made after mounting

ProjectIds == {ProjectId, OtherProject}     \* ids of the rows over time

LoadProjectsFailed == "Failed to load projects"
CreateProfileFailed == "Failed to create user profile"

ProjectMutations == {"createProject", "updateProject", "deleteProject"}

ProjectSuccess(op) ==
    CASE op = "createProject" -> "Project created successfully"
      [] op = "updateProject" -> "Project updated successfully"
      [] OTHER -> "Project deleted successfully"

ProjectFailure(op) ==
    CASE op = "createProject" -> "Failed to create project"
      [] op = "updateProject" -> "Failed to update project"
      [] OTHER -> "Failed to delete project"

\* what the call returns: data or null, true or false
ProjectReturned(op, ok) ==
    IF op = "deleteProject"
    THEN IF ok THEN "true" ELSE "false"
    ELSE IF ok THEN "data" ELSE "null"

RECURSIVE Descending(_)
\* .order('created_at', { ascending: false }): newest first; ids are given
\* in the order of creation
Descending(ids) ==
    IF ids = {}
    THEN <<>>
    ELSE LET top == CHOOSE i \in ids : \A j \in ids : j <= i
         IN  <<top>> \o Descending(ids \ {top})

\* the id of the row an insert into projects creates
NewProjectId == CHOOSE i \in ProjectIds \ dbProjects : \A j \in dbProjects : j < i

CanInsertProject == \E i \in ProjectIds \ dbProjects : \A j \in dbProjects : j < i

\* projects.filter(p => p.id !== id)
Without(list, id) == SelectSeq(list, LAMBDA q : q # id)

\* projects.find(p => p.id !== id) || null
FindOther(list, id) == IF Without(list, id) = <<>> THEN NULL ELSE Without(list, id)[1]

\* a call of the rendering whose projects and currentProject are seen;
\* profile: the data of the profile lookup, NULL for null
ProjectCall(op, arg, pc) ==
    [op |-> op, arg |-> arg, pc |-> pc, seenProjects |-> projects,
     seenCurrent |-> currentProject, profile |-> NULL, data |-> <<>>]

ProjectResolved(c, ok) == [op |-> c.op, result |-> ProjectReturned(c.op, ok)]

\* fetchProjects(): by the effect on [user] or as refetch
FetchProjects ==
    /\ projectsStarted < MaxProjectCalls
    /\ projectsStarted' = projectsStarted + 1
    /\ IF user = NULL
       THEN UNCHANGED <<projectsLoading, projectCalls>>
       ELSE /\ projectsLoading' = TRUE
            /\ projectCalls' = Append(projectCalls, ProjectCall("fetchProjects", NULL, "profile"))
    /\ UNCHANGED <<user, dbProfile, dbProjects, projects, currentProject,
                   projectsToast, projectDone>>
    /\ UNCHANGED besideProjects

\* fetchProjects returns or has thrown: finally
FetchProjectsEnds(i, shown) ==
    /\ projectsToast' = shown
    /\ projectsLoading' = FALSE
    /\ projectCalls' = Remove(projectCalls, i)
    /\ projectDone' = [op |-> "fetchProjects", result |-> "none"]

\* the profile lookup is answered: a row, PGRST116 (no row) or another error
AnswerProfile(i, answer) ==
    /\ projectCalls[i].op = "fetchProjects" /\ projectCalls[i].pc = "profile"
    /\ answer = "row" => dbProfile
    /\ answer = "PGRST116" => ~dbProfile
    /\ CASE answer = "row" ->
              /\ projectCalls' = [projectCalls EXCEPT ![i].pc = "projects",
                                                      ![i].profile = UserId]
              /\ UNCHANGED <<projectsToast, projectsLoading, projectDone>>
         [] answer = "PGRST116" ->
              /\ projectCalls' = [projectCalls EXCEPT ![i].pc = "insert"]
              /\ UNCHANGED <<projectsToast, projectsLoading, projectDone>>
         [] OTHER -> FetchProjectsEnds(i, projectsToast)
    /\ UNCHANGED <<user, dbProfile, dbProjects, projects, currentProject, projectsStarted>>
    /\ UNCHANGED besideProjects

\* the insert of the missing profile is answered; user_id is unique, so it
\* succeeds only while the user has no profile.  After a success the code
\* assigns profile.id = newProfile.id; profile is the data of the failed
\* lookup, and assigning a property of null throws a TypeError
AnswerInsert(i, ok) ==
    /\ projectCalls[i].pc = "insert"
    /\ ok => ~dbProfile
    /\ projectCalls[i].profile = NULL
    /\ IF ok
       THEN /\ dbProfile' = TRUE
            /\ FetchProjectsEnds(i, LoadProjectsFailed)
       ELSE /\ FetchProjectsEnds(i, CreateProfileFailed)
            /\ UNCHANGED dbProfile
    /\ UNCHANGED <<user, dbProjects, projects, currentProject, projectsStarted>>
    /\ UNCHANGED besideProjects

\* storage answers the projects query: the rows it holds now, or an error
ReadProjects(i, ok) ==
    /\ projectCalls[i].pc = "projects"
    /\ IF ok
       THEN /\ projectCalls' = [projectCalls EXCEPT ![i].pc = "answered",
                                                    ![i].data = Descending(dbProjects)]
            /\ UNCHANGED <<projectsToast, projectsLoading, projectDone>>
       ELSE FetchProjectsEnds(i, LoadProjectsFailed)
    /\ UNCHANGED <<user, dbProfile, dbProjects, projects, currentProject, projectsStarted>>
    /\ UNCHANGED besideProjects

\* the answer reaches fetchProjects: setProjects, and the first project
\* becomes current if the rendering of the call had none
DeliverProjects(i) ==
    /\ projectCalls[i].pc = "answered"
    /\ projects' = projectCalls[i].data
    /\ currentProject' =
         IF projectCalls[i].seenCurrent = NULL /\ projectCalls[i].data # <<>>
         THEN projectCalls[i].data[1]
         ELSE currentProject
    /\ FetchProjectsEnds(i, projectsToast)
    /\ UNCHANGED <<user, dbProfile, dbProjects, projectsStarted>>
    /\ UNCHANGED besideProjects

\* ProjectSelector: setCurrentProject(project) with a project of the list
SelectProject(id) ==
    /\ id \in SeqRange(projects)
    /\ id # currentProject
    /\ currentProject' = id
    /\ UNCHANGED <<user, dbProfile, dbProjects, projects, projectsLoading,
                   projectsToast, projectCalls, projectDone, projectsStarted>>
    /\ UNCHANGED besideProjects

\* createProject, or updateProject(id) or deleteProject(id) with a project
\* of the list, is called
CallProjectMutation(op, id) ==
    /\ projectsStarted < MaxProjectCalls
    /\ IF op = "createProject" THEN id = NULL ELSE id \in SeqRange(projects)
    /\ projectsStarted' = projectsStarted + 1
    /\ IF op = "createProject" /\ user = NULL
       THEN /\ projectDone' = [op |-> op, result |-> "undefined"]
            /\ UNCHANGED projectCalls
       ELSE /\ projectCalls' = Append(projectCalls, ProjectCall(op, id, "storage"))
            /\ UNCHANGED projectDone
    /\ UNCHANGED <<user, dbProfile, dbProjects, projects, currentProject,
                   projectsLoading, projectsToast>>
    /\ UNCHANGED besideProjects

\* whether the storage calls of the mutation can be answered without error
ProjectCanSucceed(c) ==
    CASE c.op = "createProject" -> dbProfile /\ CanInsertProject
      [] c.op = "updateProject" -> c.arg \in dbProjects
      [] OTHER -> TRUE

\* the storage calls of a mutation are answered and the call resolves
AnswerProjectMutation(i, ok) ==
    /\ projectCalls[i].pc = "storage"
    /\ ok => ProjectCanSucceed(projectCalls[i])
    /\ LET c == projectCalls[i]
       IN  IF ok
           THEN /\ projectsToast' = ProjectSuccess(c.op)
                /\ CASE c.op = "createProject" ->
                          /\ dbProjects' = dbProjects \cup {NewProjectId}
                          /\ projects' = <<NewProjectId>> \o c.seenProjects
                          /\ currentProject' = NewProjectId
                     [] c.op = "updateProject" ->
                          /\ UNCHANGED dbProjects
                          /\ projects' = c.seenProjects
                          /\ currentProject' =
                               IF c.seenCurrent = c.arg THEN c.arg ELSE currentProject
                     [] OTHER ->
                          /\ dbProjects' = dbProjects \ {c.arg}
                          /\ projects' = Without(c.seenProjects, c.arg)
                          /\ currentProject' =
                               IF c.seenCurrent = c.arg
                               THEN FindOther(c.seenProjects, c.arg)
                               ELSE currentProject
           ELSE /\ projectsToast' = ProjectFailure(c.op)
                /\ UNCHANGED <<dbProjects, projects, currentProject>>
    /\ projectDone' = ProjectResolved(projectCalls[i], ok)
    /\ projectCalls' = Remove(projectCalls, i)
    /\ UNCHANGED <<user, dbProfile, projectsLoading, projectsStarted>>
    /\ UNCHANGED besideProjects

\* useProjects mounted: loading, and fetchProjects called if a user is there
ProjectsInit ==
    /\ HierIdle /\ DragIdle /\ HeaderIdle /\ TaskOpsIdle /\ WalkIdle
    /\ user \in {NULL, UserId}
    /\ dbProfile \in BOOLEAN
    /\ dbProjects \in { {}, {ProjectId} }
    /\ (~dbProfile) => dbProjects = {}
    /\ projects = <<>>
    /\ currentProject = NULL
    /\ projectsLoading = TRUE
    /\ projectsToast = NoToast
    /\ projectCalls = IF user = NULL THEN <<>>
                      ELSE << [op |-> "fetchProjects", arg |-> NULL, pc |-> "profile",
                               seenProjects |-> <<>>, seenCurrent |-> NULL,
                               profile |-> NULL, data |-> <<>>] >>
    /\ projectDone = NoProjectCall
    /\ projectsStarted = 0

ProjectsNext ==
    \/ FetchProjects
    \/ \E i \in 1..Len(projectCalls), answer \in {"row", "PGRST116", "error"} :
         AnswerProfile(i, answer)
    \/ \E i \in 1..Len(projectCalls), ok \in BOOLEAN : AnswerInsert(i, ok)
    \/ \E i \in 1..Len(projectCalls), ok \in BOOLEAN : ReadProjects(i, ok)
    \/ \E i \in 1..Len(projectCalls) : DeliverProjects(i)
    \/ \E id \in ProjectIds : SelectProject(id)
    \/ \E op \in ProjectMutations, id \in ProjectIds \cup {NULL} :
         CallProjectMutation(op, id)
    \/ \E i \in 1..Len(projectCalls), ok \in BOOLEAN : AnswerProjectMutation(i, ok)

SpecProjects == ProjectsInit /\ [][ProjectsNext]_vars

\* --------------------------------------------- useProjects: the claims
\* the step handles call i: the call resolves or moves on
Handled(i) ==
    \/ projectCalls' = Remove(projectCalls, i)
    \/ /\ Len(projectCalls') = Len(projectCalls)
       /\ projectCalls'[i] # projectCalls[i]

\* C14: whenever loading has finished and the projects list is non-empty, one
\* project is current (currentProject is non-null).
C14_OneCurrent ==
    (~projectsLoading /\ projects # <<>>) => currentProject # NULL

\* the parts of C14 that hold: a project created by a successful
\* createProject is first in the list and current; a fetchProjects that
\* completes with a non-empty result selects the first returned project if
\* nothing is selected and its rendering had nothing selected, and keeps the
\* selection its rendering had otherwise
SelectionSteps ==
    [][\A i \in 1..Len(projectCalls) :
          LET c == projectCalls[i]
          IN  /\ ( /\ c.op = "createProject" /\ Handled(i)
                   /\ projectsToast' = ProjectSuccess("createProject") ) =>
                     /\ currentProject' \in dbProjects' \ dbProjects
                     /\ projects'[1] = currentProject'
              /\ (c.pc = "answered" /\ Handled(i) /\ c.data # <<>>) =>
                     /\ projects' = c.data
                     /\ ~projectsLoading'
                     /\ currentProject' =
                          IF c.seenCurrent = NULL THEN c.data[1] ELSE currentProject
                     /\ (currentProject = NULL /\ c.seenCurrent = NULL) =>
                          currentProject' = c.data[1] ]_vars

\* a created project is current, and a first load has selected its first row
SelectionReached ==
    \/ /\ projectDone = [op |-> "createProject", result |-> "data"]
       /\ currentProject # NULL /\ projects[1] = currentProject
    \/ /\ projectDone.op = "fetchProjects" /\ projectCalls = <<>>
       /\ projects # <<>> /\ currentProject = projects[1]

\* the project list was answered before the current, only project was
\* deleted and delivered after: loaded, non-empty, nothing current
StaleSelection ==
    /\ ~projectsLoading /\ projects # <<>> /\ currentProject = NULL
    /\ projectCalls = <<>>
    /\ projectDone.op = "fetchProjects"

\* C20: when the profile lookup is answered with PGRST116, fetchProjects
\* inserts a profile; if the insert succeeds it goes on to load the projects
\* and shows no error notification; if the insert fails it shows a
\* notification and loads nothing; in every case loading ends false.
C20_Remediation ==
    [][\A i \in 1..Len(projectCalls) :
          (projectCalls[i].pc = "insert" /\ Handled(i)) =>
              IF dbProfile' /\ ~dbProfile
              THEN /\ projectsToast' = projectsToast
                   /\ Len(projectCalls') = Len(projectCalls)
                   /\ projectCalls'[i].pc = "projects"
              ELSE /\ projectsToast' = CreateProfileFailed
                   /\ projects' = projects
                   /\ ~projectsLoading' ]_vars

\* the parts of C20 that hold: PGRST116 leads to the insert, a failed insert
\* shows "Failed to create user profile" and loads nothing, and every
\* fetchProjects that ends leaves loading false
RemediationSteps ==
    [][\A i \in 1..Len(projectCalls) :
          LET c == projectCalls[i]
          IN  /\ (c.pc = "profile" /\ Handled(i) /\ ~dbProfile
                    /\ Len(projectCalls') = Len(projectCalls)) =>
                     projectCalls'[i].pc = "insert"
              /\ (c.pc = "insert" /\ Handled(i) /\ ~dbProfile') =>
                     /\ projectsToast' = CreateProfileFailed
                     /\ projects' = projects /\ currentProject' = currentProject
                     /\ projectCalls' = Remove(projectCalls, i)
              /\ (c.op = "fetchProjects" /\ projectCalls' = Remove(projectCalls, i)) =>
                     ~projectsLoading' ]_vars

\* what happens instead after a successful insert: the profile exists,
\* "Failed to load projects" is shown and nothing was loaded
InsertThenError ==
    [][\A i \in 1..Len(projectCalls) :
          (projectCalls[i].pc = "insert" /\ Handled(i) /\ dbProfile' /\ ~dbProfile) =>
              /\ projectsToast' = LoadProjectsFailed
              /\ projects' = projects
              /\ projectCalls' = Remove(projectCalls, i)
              /\ ~projectsLoading' ]_vars

\* C27: once every call of useProjects has completed, currentProject is null
\* or a project of the projects list.
C27_CurrentInList ==
    projectCalls = <<>> =>
        (currentProject = NULL \/ currentProject \in SeqRange(projects))

====
